---------------------------- MODULE Spec2Model ----------------------------
(***************************************************************************)
(* Model of the ILL data SFTP client, class IllSftp of src/illdata/sftp.py.*)
(* Strings are sequences of one-character strings, so that concatenation,  *)
(* prefix tests, slicing and POSIX path joining are computed as the code   *)
(* computes them.  The SFTP server and the transport library (pysftp) are   *)
(* the environment: every remote call either succeeds or raises, chosen    *)
(* nondeterministically, and symbolic links resolve through a fixed table. *)
(***************************************************************************)
EXTENDS Integers, Sequences, FiniteSets, TLC

(***************************************************************************)
(* Bounds                                                                  *)
(***************************************************************************)
\* number of transport handles the environment can hand out
MaxConn == 2
\* number of lazy proposal sequences (generator objects) alive at once
MaxGens == 1

(***************************************************************************)
(* String literals of the code                                             *)
(***************************************************************************)
EmptyStr == << >>
MyData == <<"M", "y", "D", "a", "t", "a">>
ByProposal == <<"b", "y", "P", "r", "o", "p", "o", "s", "a", "l">>
ExpPrefix == <<"e", "x", "p", "_">>
Dot == <<".">>

(***************************************************************************)
(* Inputs the callers draw from                                            *)
(***************************************************************************)
\* proposal ids given to open_proposal: the empty id and two others
Ids == { EmptyStr, <<"1">>, <<"2">> }
\* remote paths given to listdir / download
RemotePaths == { Dot, <<"/", "c">> }
\* local destination paths, as lists of components below the working directory
LocalPaths == { <<"f">>, <<"o", "s", "f">> }

(***************************************************************************)
(* The server: link table and listing of <home>/byProposal                 *)
(***************************************************************************)
RemoteHome == <<"/", "h">>
LinkNames == { ExpPrefix, ExpPrefix \o <<"1">>, ExpPrefix \o <<"2">> }
LinkTarget(name) ==
    IF name = ExpPrefix THEN <<"/", "d", "/", "0">>
    ELSE <<"/", "d", "/">> \o SubSeq(name, Len(ExpPrefix) + 1, Len(name))
RemoteListing ==
    << ExpPrefix \o <<"1", "2", "3", "4", "5">>,
       <<"s", "a", "n", "d", "b", "o", "x">>,
       ExpPrefix \o <<"9", "9">>,
       ExpPrefix \o ExpPrefix \o <<"7">> >>

(***************************************************************************)
(* PurePosixPath: parsing, str() and the / operator                        *)
(***************************************************************************)
RECURSIVE SplitSlash(_, _)
\* s.split("/") with the component being read in cur
SplitSlash(s, cur) ==
    IF s = << >> THEN << cur >>
    ELSE IF Head(s) = "/" THEN << cur >> \o SplitSlash(Tail(s), << >>)
    ELSE SplitSlash(Tail(s), Append(cur, Head(s)))

RECURSIVE KeepParts(_)
\* the components a pure path keeps: empty ones and "." are dropped
KeepParts(cs) ==
    IF cs = << >> THEN << >>
    ELSE IF Head(cs) = << >> \/ Head(cs) = Dot THEN KeepParts(Tail(cs))
    ELSE << Head(cs) >> \o KeepParts(Tail(cs))

RECURSIVE JoinSlash(_)
\* "/".join(components)
JoinSlash(cs) ==
    IF cs = << >> THEN << >>
    ELSE IF Len(cs) = 1 THEN Head(cs)
    ELSE Head(cs) \o <<"/">> \o JoinSlash(Tail(cs))

StartsWith(s, p) == Len(s) >= Len(p) /\ SubSeq(s, 1, Len(p)) = p

\* the root of a POSIX path: "/" , or "//" for exactly two leading slashes
PathRoot(s) ==
    IF ~StartsWith(s, <<"/">>) THEN << >>
    ELSE IF StartsWith(s, <<"/", "/">>) /\ ~StartsWith(s, <<"/", "/", "/">>)
         THEN <<"/", "/">>
    ELSE <<"/">>

\* str(PurePosixPath(s))
PurePosixPath(s) ==
    LET body == PathRoot(s) \o JoinSlash(KeepParts(SplitSlash(s, << >>)))
    IN  IF body = << >> THEN Dot ELSE body

\* str(PurePosixPath(p) / part): an absolute part replaces what precedes it
PathDiv(p, part) ==
    IF StartsWith(part, <<"/">>) THEN PurePosixPath(part)
    ELSE IF p = << >> THEN PurePosixPath(part)
    ELSE PurePosixPath(p \o <<"/">> \o part)

\* _join_posix(a, b)
_join_posix(a, b) == PathDiv(PurePosixPath(a), b)

\* the directories the client can hold and the parts it joins to them
JoinBases == { EmptyStr, RemoteHome } \cup { LinkTarget(n) : n \in LinkNames }
JoinParts == { ByProposal } \cup RemotePaths
\* _join_posix tabulated over them, so that each join is computed once
JoinTable == { << x[1], x[2], _join_posix(x[1], x[2]) >> : x \in JoinBases \X JoinParts }
Joined(a, b) == (CHOOSE t \in JoinTable : t[1] = a /\ t[2] = b)[3]

\* obj[4:] for every entry, whatever it starts with
StripFour(obj) == SubSeq(obj, Len(ExpPrefix) + 1, Len(obj))

\* obj[4:] if obj.startswith("exp_") else obj
StripExp(obj) ==
    IF StartsWith(obj, ExpPrefix) THEN SubSeq(obj, Len(ExpPrefix) + 1, Len(obj))
    ELSE obj

RECURSIVE Prefixes(_)
\* a directory and all its ancestors, as os.makedirs creates them
Prefixes(d) == IF d = << >> THEN { << >> } ELSE { d } \cup Prefixes(SubSeq(d, 1, Len(d) - 1))

\* os.path.dirname(os.path.abspath(local_path)), below the working directory
DestDir(local_path) == SubSeq(local_path, 1, Len(local_path) - 1)

(***************************************************************************)
(* State                                                                   *)
(***************************************************************************)
VARIABLES
    _connection,        \* 0 is None, otherwise the handle of the pysftp.Connection
    _home,              \* cached home directory
    _proposal,          \* id of the selected proposal, "" when none
    _propdir,           \* cached proposal directory
    openConns,          \* environment: handles of transports that are open
    cwd,                \* environment: working directory of the current connection
    localDirs,          \* environment: local directories that exist
    gens,               \* generator objects returned by proposals()
    inBlock,            \* TRUE while the client is the subject of a with-block
    op,                 \* the call made last
    result,             \* "ok" or the exception it raised
    cause,              \* the underlying error: __cause__ of the exception
                        \* raised, or the error __exit__ caught and logged
    ret,                \* the value it returned or yielded
    calls,              \* the remote calls it issued, in order
    selected,           \* history: << id >> of the proposal opened on this session
    prevSelected,       \* history: value of selected before the last successful open
    again,              \* history: the last call repeated a disconnect
    blockExc,           \* history: what the with-block left last had raised
    localArg,           \* history: << local_path >> of a download that passed its guards
    lateUse,            \* history: how the sequence consumed first by the last
                        \* call had been obtained, "" when none was
    joinCall            \* << a, b, _join_posix(a, b) >> of a direct call of _join_posix

vars == << _connection, _home, _proposal, _propdir, openConns,
           cwd, localDirs, gens, inBlock, op, result, cause, ret, calls,
           selected, prevSelected, again, blockExc, localArg, lateUse, joinCall >>

client == << _connection, _home, _proposal, _propdir >>
env == << openConns, cwd, localDirs >>
hist == << selected, prevSelected >>

Handles == 1 .. MaxConn
GenIds == 1 .. MaxGens
\* onConn: history, whether the client was connected when a generator not
\* yet run was created
NoGen == [st |-> "none", items |-> << >>, onConn |-> FALSE]

\* a client after construction, as its caller sees it
InitSession ==
    /\ _connection = 0
    /\ _home = EmptyStr
    /\ _proposal = EmptyStr
    /\ _propdir = EmptyStr
    /\ openConns = { }
    /\ cwd = EmptyStr
    /\ localDirs = { << >> }
    /\ gens = [g \in GenIds |-> NoGen]
    /\ inBlock = FALSE
    /\ op = "init"
    /\ result = "ok"
    /\ cause = ""
    /\ ret = << >>
    /\ calls = << >>
    /\ selected = << >>
    /\ prevSelected = << >>
    /\ again = FALSE
    /\ blockExc = "none"
    /\ localArg = << >>
    /\ lateUse = ""

Init ==
    /\ InitSession
    /\ joinCall = << >>

\* what the caller observes of one call of the client
ObsCall(o, r, c, v, cl) ==
    /\ op' = o
    /\ result' = r
    /\ cause' = c
    /\ ret' = v
    /\ calls' = cl
    /\ again' = FALSE
    /\ UNCHANGED joinCall

\* the same, of a call that neither passes the guards of download nor
\* consumes a lazy sequence for the first time
Obs(o, r, c, v, cl) ==
    /\ ObsCall(o, r, c, v, cl)
    /\ localArg' = << >>
    /\ lateUse' = ""

\* the handle pysftp.Connection(...) gives a new transport
FreeHandles == Handles \ openConns
NewHandle == CHOOSE h \in FreeHandles : \A k \in FreeHandles : h <= k

\* the connected property
connected == _connection # 0

\* a guard that tests the cached home directory instead of the connection
NotConnectedByHome == _home = EmptyStr

\* _require_connection raises NotConnectedError
NotConnected == _connection = 0

\* a guard that tests the cached proposal directory instead of the id
NoProposalByDir == _propdir = EmptyStr

\* _require_proposal raises NoProposalSelectedError
NoProposal == _proposal = EmptyStr

(***************************************************************************)
(* connect                                                                 *)
(***************************************************************************)
\* an except clause that raises without dropping the connection assigned
\* before readlink("MyData") failed
ConnectFailsKeeps(o, err, cl) ==
    /\ _connection' = IF err = "readlink" THEN NewHandle ELSE _connection
    /\ Obs(o, "IllDataError", err, << >>, cl)

\* the except clause of connect: the connection is dropped, IllDataError is
\* raised from the error err
ConnectFails(o, err, cl) ==
    /\ _connection' = 0
    /\ Obs(o, "IllDataError", err, << >>, cl)

\* a connect without the test of the connection field
AlreadyConnectedIgnored == FALSE

\* connect returns at once when a connection is held
AlreadyConnected == _connection # 0

\* the body of connect, called as o; the environment decides whether the
\* transport setup (CnOpts, pysftp.Connection) and readlink("MyData") succeed
ConnectBody(o) ==
    IF AlreadyConnected
    THEN /\ Obs(o, "ok", "", << >>, << >>)
         /\ UNCHANGED << client, env, hist >>
    ELSE \/ /\ ConnectFails(o, "transport", << >>)
            /\ UNCHANGED << _home, _proposal, _propdir, env, hist >>
         \/ /\ FreeHandles # { }
            /\ openConns' = openConns \cup { NewHandle }
            /\ \/ /\ _connection' = NewHandle
                  /\ _home' = RemoteHome
                  /\ cwd' = EmptyStr
                  /\ selected' = << >>
                  /\ prevSelected' = << >>
                  /\ Obs(o, "ok", "", << >>, << <<"readlink", MyData>> >>)
               \/ /\ ConnectFails(o, "readlink", << <<"readlink", MyData>> >>)
                  /\ UNCHANGED << _home, cwd, hist >>
            /\ UNCHANGED << _proposal, _propdir, localDirs >>

connect ==
    /\ ConnectBody("connect")
    /\ UNCHANGED << gens, inBlock, blockExc >>

(***************************************************************************)
(* disconnect                                                              *)
(***************************************************************************)
\* a disconnect without finally: the field is cleared only when close() returns
ConnectionKeptOnError(closeOk) == IF closeOk THEN 0 ELSE _connection

\* the connection field after the try/finally of disconnect
ConnectionAfterClose(closeOk) == 0

\* what disconnect raises when close() returned (closeOk) or raised
DisconnectRaises(closeOk) == IF closeOk THEN "ok" ELSE "CloseError"

\* the body of disconnect, run by the call o: what it does to the client and
\* the transport.  closeOk: close() returns; stays: a close() that raised
\* left the transport open (both TRUE when there is nothing to close)
DisconnectBody(o, closeOk, stays) ==
    /\ op' = o
    /\ ret' = << >>
    /\ again' = (op = o)
    /\ localArg' = << >>
    /\ lateUse' = ""
    /\ UNCHANGED joinCall
    /\ IF _connection = 0
       THEN /\ closeOk /\ stays
            /\ calls' = << >>
            /\ UNCHANGED << client, env, hist >>
       ELSE /\ closeOk => stays
            /\ calls' = << <<"close", << >> >> >>
            /\ openConns' = IF closeOk \/ ~stays THEN openConns \ { _connection }
                            ELSE openConns
            /\ _connection' = ConnectionAfterClose(closeOk)
            /\ selected' = << >>
            /\ prevSelected' = << >>
            /\ UNCHANGED << _home, _proposal, _propdir, cwd, localDirs >>

disconnect ==
    \E closeOk \in BOOLEAN, stays \in BOOLEAN :
        /\ DisconnectBody("disconnect", closeOk, stays)
        /\ result' = DisconnectRaises(closeOk)
        /\ cause' = ""
        /\ UNCHANGED << gens, inBlock, blockExc >>

(***************************************************************************)
(* with-block                                                              *)
(***************************************************************************)
__enter__ ==
    /\ ~inBlock
    /\ ConnectBody("__enter__")
    /\ inBlock' = (result' = "ok")
    /\ UNCHANGED << gens, blockExc >>

\* an __exit__ that returns a true value
ExitSwallows == TRUE

\* the value __exit__ returns: None, so the exception of the block is re-raised
ExitReturn == FALSE

\* what the with statement raises when its block raised exc ("none": no
\* exception) and __exit__ returned swallow
WithRaises(exc, swallow) == IF exc # "none" /\ ~swallow THEN exc ELSE "ok"

\* exc: "none", or the exception raised inside the block; an Exception of
\* disconnect is caught and logged
__exit__(exc) ==
    \E closeOk \in BOOLEAN, stays \in BOOLEAN :
        /\ inBlock
        /\ DisconnectBody("__exit__", closeOk, stays)
        /\ result' = WithRaises(exc, ExitReturn)
        /\ cause' = IF DisconnectRaises(closeOk) = "ok" THEN ""
                    ELSE DisconnectRaises(closeOk)
        /\ inBlock' = FALSE
        /\ blockExc' = exc
        /\ UNCHANGED gens

(***************************************************************************)
(* proposals: a generator function                                         *)
(***************************************************************************)
\* a proposals that is an ordinary method: the connection is required by
\* the call
proposals_eager(g) ==
    /\ gens[g].st = "none"
    /\ IF NotConnected
       THEN /\ Obs("proposals", "NotConnectedError", "", << >>, << >>)
            /\ UNCHANGED gens
       ELSE /\ gens' = [gens EXCEPT ![g] = [st |-> "created", items |-> << >>,
                                             onConn |-> connected]]
            /\ Obs("proposals", "ok", "", << >>, << >>)
    /\ UNCHANGED << client, env, hist, inBlock, blockExc >>

\* the call only creates the generator object; no line of the body runs
proposals(g) ==
    /\ gens[g].st = "none"
    /\ gens' = [gens EXCEPT ![g] = [st |-> "created", items |-> << >>,
                                    onConn |-> connected]]
    /\ Obs("proposals", "ok", "", << >>, << >>)
    /\ UNCHANGED << client, env, hist, inBlock, blockExc >>

\* a generator that has finished or raised is gone
GenDone == NoGen

\* the generator yields the next entry of items, or is exhausted
GenYield(g, items, cl) ==
    IF items = << >>
    THEN /\ gens' = [gens EXCEPT ![g] = GenDone]
         /\ ObsCall("next", "StopIteration", "", << >>, cl)
    ELSE /\ gens' = [gens EXCEPT ![g] = [st |-> "running", items |-> Tail(items),
                                         onConn |-> FALSE]]
         /\ ObsCall("next", "ok", "", StripExp(Head(items)), cl)

\* what the server lists under remote_path
ServerListdir(remote_path) ==
    IF remote_path = RemoteHome \o <<"/">> \o ByProposal THEN RemoteListing ELSE << >>

\* next() on the generator; the first one runs the body up to the first yield
gen_next(g) ==
    /\ gens[g].st \in { "created", "running" }
    /\ localArg' = << >>
    /\ IF gens[g].st = "running"
       THEN /\ lateUse' = ""
            /\ GenYield(g, gens[g].items, << >>)
       ELSE /\ lateUse' = IF gens[g].onConn THEN "connected" ELSE "disconnected"
            /\ IF NotConnected
               THEN /\ gens' = [gens EXCEPT ![g] = GenDone]
                    /\ ObsCall("next", "NotConnectedError", "", << >>, << >>)
               ELSE LET remote_path == Joined(_home, ByProposal)
                        cl == << <<"listdir", remote_path>> >>
                    IN  \/ /\ gens' = [gens EXCEPT ![g] = GenDone]
                           /\ ObsCall("next", "RemoteError", "", << >>, cl)
                        \/ GenYield(g, ServerListdir(remote_path), cl)
    /\ UNCHANGED << client, env, hist, inBlock, blockExc >>

(***************************************************************************)
(* open_proposal                                                           *)
(***************************************************************************)
\* a proposal directory that is resolved only when none is cached
ReadlinkCached(link) == IF _propdir = EmptyStr THEN LinkTarget(link) ELSE _propdir

\* the proposal directory stored when readlink(link) has answered
ReadlinkProposal(link) == LinkTarget(link)

\* an open_proposal that stores the id before it requires the connection
open_proposal_stores_first(value) ==
    /\ _proposal' = value
    /\ IF NotConnected
       THEN /\ Obs("open_proposal", "NotConnectedError", "", << >>, << >>)
            /\ UNCHANGED << _propdir, cwd, hist >>
       ELSE LET byProp == Joined(_home, ByProposal)
                link == ExpPrefix \o value
            IN  \/ /\ Obs("open_proposal", "RemoteError", "", << >>,
                           << <<"chdir", byProp>> >>)
                   /\ UNCHANGED << _propdir, cwd, hist >>
                \/ /\ cwd' = byProp
                   /\ \/ /\ link \in LinkNames
                         /\ _propdir' = ReadlinkProposal(link)
                         /\ prevSelected' = selected
                         /\ selected' = << value >>
                         /\ Obs("open_proposal", "ok", "", << >>,
                                << <<"chdir", byProp>>, <<"readlink", link>> >>)
                      \/ /\ Obs("open_proposal", "RemoteError", "", << >>,
                                << <<"chdir", byProp>>, <<"readlink", link>> >>)
                         /\ UNCHANGED << _propdir, hist >>
    /\ UNCHANGED << _connection, _home, openConns, localDirs, gens, inBlock, blockExc >>

\* the environment decides whether chdir and readlink succeed
open_proposal(value) ==
    /\ IF NotConnected
       THEN /\ Obs("open_proposal", "NotConnectedError", "", << >>, << >>)
            /\ UNCHANGED << client, env, hist >>
       ELSE LET byProp == Joined(_home, ByProposal)
                link == ExpPrefix \o value
            IN  /\ _proposal' = value
                /\ \/ /\ Obs("open_proposal", "RemoteError", "", << >>,
                             << <<"chdir", byProp>> >>)
                      /\ UNCHANGED << _propdir, cwd, hist >>
                   \/ /\ cwd' = byProp
                      /\ \/ /\ link \in LinkNames
                            /\ _propdir' = ReadlinkProposal(link)
                            /\ prevSelected' = selected
                            /\ selected' = << value >>
                            /\ Obs("open_proposal", "ok", "", << >>,
                                   << <<"chdir", byProp>>, <<"readlink", link>> >>)
                         \/ /\ Obs("open_proposal", "RemoteError", "", << >>,
                                   << <<"chdir", byProp>>, <<"readlink", link>> >>)
                            /\ UNCHANGED << _propdir, hist >>
                /\ UNCHANGED << _connection, _home, openConns, localDirs >>
    /\ UNCHANGED << gens, inBlock, blockExc >>

(***************************************************************************)
(* listdir, listdir_attr                                                   *)
(***************************************************************************)
\* a listdir that drops the connection when the remote listing fails
listdir_drops(remote_path, with_attr) ==
    /\ IF NotConnected
       THEN /\ Obs("listdir", "NotConnectedError", "", << >>, << >>)
            /\ UNCHANGED _connection
       ELSE IF NoProposal
       THEN /\ Obs("listdir", "NoProposalSelectedError", "", << >>, << >>)
            /\ UNCHANGED _connection
       ELSE LET path == Joined(_propdir, remote_path)
                call == IF with_attr THEN "listdir_attr" ELSE "listdir"
            IN  \E r \in { "ok", "RemoteError" } :
                    /\ Obs("listdir", r, "", << >>, << << call, path >> >>)
                    /\ _connection' = IF r = "ok" THEN _connection ELSE 0
    /\ UNCHANGED << _home, _proposal, _propdir, env, hist, gens, inBlock, blockExc >>

\* the environment decides whether the remote listing succeeds
listdir(remote_path, with_attr) ==
    /\ IF NotConnected
       THEN Obs("listdir", "NotConnectedError", "", << >>, << >>)
       ELSE IF NoProposal
       THEN Obs("listdir", "NoProposalSelectedError", "", << >>, << >>)
       ELSE LET path == Joined(_propdir, remote_path)
                call == IF with_attr THEN "listdir_attr" ELSE "listdir"
            IN  \E r \in { "ok", "RemoteError" } :
                    Obs("listdir", r, "", << >>, << << call, path >> >>)
    /\ UNCHANGED << client, env, hist, gens, inBlock, blockExc >>

(***************************************************************************)
(* download                                                                *)
(***************************************************************************)
\* a download that leaves the destination directory as it finds it
DirsLeftAlone(dest_dir) == localDirs

\* the local directories after os.makedirs(dest_dir, exist_ok=True) succeeded
\* or was skipped because dest_dir is a directory
DirsEnsured(dest_dir) == localDirs \cup Prefixes(dest_dir)

\* the environment decides whether os.makedirs and the remote get succeed
download(remote_path, local_path) ==
    /\ IF NotConnected
       THEN /\ Obs("download", "NotConnectedError", "", << >>, << >>)
            /\ UNCHANGED localDirs
       ELSE IF NoProposal
       THEN /\ Obs("download", "NoProposalSelectedError", "", << >>, << >>)
            /\ UNCHANGED localDirs
       ELSE LET dest_dir == DestDir(local_path)
                path == Joined(_propdir, remote_path)
            IN  /\ localArg' = << local_path >>
                /\ lateUse' = ""
                /\ \/ /\ dest_dir \notin localDirs
                      /\ ObsCall("download", "LocalError", "", << >>, << >>)
                      /\ UNCHANGED localDirs
                   \/ /\ localDirs' = DirsEnsured(dest_dir)
                      /\ \E r \in { "ok", "RemoteError" } :
                             ObsCall("download", r, "", << >>, << <<"get", path>> >>)
    /\ UNCHANGED << client, openConns, cwd, hist, gens, inBlock, blockExc >>

(***************************************************************************)
(* Specifications                                                          *)
(***************************************************************************)
BlockExcs == { "none", "BodyError" }

\* direct calls of the session operations
NextCore ==
    \/ connect
    \/ disconnect
    \/ \E v \in Ids : open_proposal(v)
    \/ \E p \in RemotePaths, a \in BOOLEAN : listdir(p, a)
    \/ \E p \in RemotePaths, lp \in LocalPaths : download(p, lp)

\* the client as the subject of with-blocks
NextBlock ==
    \/ __enter__
    \/ \E e \in BlockExcs : __exit__(e)

\* the lazy sequences of proposals()
NextGen ==
    \/ \E g \in GenIds : proposals(g)
    \/ \E g \in GenIds : gen_next(g)

Next == NextCore \/ NextBlock \/ NextGen

(***************************************************************************)
(* _join_posix called on its own                                           *)
(***************************************************************************)
\* path segments: plain, with a trailing slash, with a leading slash
Segments ==
    { <<"a">>, <<"a", "/">>, <<"/", "a">>, <<"a", "/", "b">>, <<"a", "/", "b", "/">>,
      <<"b">>, <<"c">>, <<"/", "c">>, <<"c", "/">>, <<"/", "b", "/", "c">> }

\* the two arguments are drawn, the call is still to be made
InitJoin ==
    /\ InitSession
    /\ joinCall \in { << a, b >> : a \in Segments, b \in Segments }

\* _join_posix(joinCall[1], joinCall[2]) returns
join_posix ==
    /\ Len(joinCall) = 2
    /\ joinCall' = << joinCall[1], joinCall[2], _join_posix(joinCall[1], joinCall[2]) >>
    /\ UNCHANGED << client, env, hist, gens, inBlock, op, result, cause, ret,
                    calls, again, blockExc, localArg, lateUse >>

SpecJoin == InitJoin /\ [][join_posix]_vars

Spec == Init /\ [][Next]_vars
SpecCore == Init /\ [][NextCore]_vars
SpecBlock == Init /\ [][NextCore \/ NextBlock]_vars
SpecGen == Init /\ [][NextCore \/ NextGen]_vars

TypeOK ==
    /\ _connection \in 0 .. MaxConn
    /\ _connection # 0 => _connection \in openConns
    /\ _home \in { EmptyStr, RemoteHome }
    /\ _proposal \in Ids
    /\ _propdir \in { EmptyStr } \cup { LinkTarget(n) : n \in LinkNames }

(***************************************************************************)
(* Properties                                                              *)
(***************************************************************************)
ScopedOps == { "listdir", "download" }
EagerOps == { "open_proposal", "listdir", "download" }
ConnectOps == { "connect", "__enter__" }

\* C1: listdir and download succeed only if a proposal has been opened
\* successfully on the session that is active now, that is by an
\* open_proposal that succeeded after the most recent successful connect.
C1_ScopedOpNeedsOpenOnSession ==
    (op \in ScopedOps /\ result = "ok") => (connected /\ selected # << >>)

\* C2: the selection update of open_proposal is all-or-nothing: a failing
\* open_proposal leaves the proposal id and the proposal directory as they
\* were, and in every state the id and the directory belong to the same
\* successfully opened proposal.
C2_SelectionAllOrNothing ==
    /\ [][ (op' = "open_proposal" /\ result' # "ok")
             => (_proposal' = _proposal /\ _propdir' = _propdir) ]_vars
    /\ [] ( \/ (_proposal = EmptyStr /\ _propdir = EmptyStr)
            \/ _propdir = LinkTarget(ExpPrefix \o _proposal) )

\* C3: after disconnect, from any state, the client is not connected, the
\* proposal id is the empty string and no home or proposal directory
\* remains cached.
C3_DisconnectClearsCache ==
    (op = "disconnect" /\ result = "ok") =>
        (~connected /\ _proposal = EmptyStr /\ _home = EmptyStr /\ _propdir = EmptyStr)

\* C4: disconnect never raises: also when close() of the transport fails it
\* returns normally, and the client is not connected afterwards.
C4_DisconnectNeverRaises ==
    op = "disconnect" => (result = "ok" /\ ~connected)

C6_CallFailsWhenNotConnected ==
    (op \in EagerOps \cup { "proposals" } /\ _connection = 0)
        => result = "NotConnectedError"

\* C6 amended: open_proposal, listdir and download called while the client
\* is not connected fail with NotConnectedError; the call of proposals only
\* returns the lazy sequence, which fails with NotConnectedError when it is
\* first consumed while the client is not connected; and no operation issues
\* a remote call while the client is not connected.
C6_FailsWhenNotConnected ==
    [][ _connection = 0 =>
          /\ op' \in EagerOps => result' = "NotConnectedError"
          /\ \A g \in GenIds :
                (op' = "next" /\ gens[g].st = "created" /\ gens'[g] # gens[g])
                    => result' = "NotConnectedError"
          /\ op' \in EagerOps \cup { "proposals", "next" } => calls' = << >> ]_vars

C6_Witness ==
    /\ op = "next"
    /\ result = "NotConnectedError"
    /\ _home # EmptyStr
    /\ _connection = 0

\* C7: disconnect is idempotent: of two disconnect calls in a row the second
\* raises nothing, changes nothing and issues no close, and the client is
\* not connected after each of the two.
C7_DisconnectIdempotent ==
    [][ (op = "disconnect" /\ op' = "disconnect") =>
          /\ _connection = 0
          /\ _connection' = 0
          /\ result' = "ok"
          /\ calls' = << >>
          /\ UNCHANGED << client, env, hist, gens, inBlock >> ]_vars

C7_Witness ==
    /\ op = "disconnect"
    /\ again
    /\ _home # EmptyStr
    /\ result = "ok"
    /\ calls = << >>
    /\ _connection = 0

\* C8: a connect that fails, at the transport setup or at the resolution of
\* MyData, raises IllDataError with the underlying error as its cause and
\* leaves the client not connected; while it is not connected every session
\* operation fails with NotConnectedError, and only a connect that succeeds
\* makes it connected.
C8_FailedConnectLeavesDisconnected ==
    [][ /\ (op' \in ConnectOps /\ result' # "ok")
            => /\ result' = "IllDataError"
               /\ cause' \in { "transport", "readlink" }
               /\ _connection = 0
               /\ _connection' = 0
        /\ (_connection = 0 /\ op' \in EagerOps) => result' = "NotConnectedError"
        /\ \A g \in GenIds :
              (_connection = 0 /\ op' = "next" /\ gens[g].st = "created"
                 /\ gens'[g] # gens[g]) => result' = "NotConnectedError"
        /\ (_connection = 0 /\ _connection' # 0)
            => (op' \in ConnectOps /\ result' = "ok") ]_vars

C8_Witness ==
    /\ op = "connect"
    /\ result = "IllDataError"
    /\ cause = "readlink"
    /\ _connection = 0

\* C9: a successful open_proposal(B) makes B the reported proposal and the
\* directory resolved from exp_B the proposal directory, also when another
\* proposal A was open; listdir and download then resolve their path
\* against the directory of exp_B.
C9_ReopenReplacesSelection ==
    /\ (op = "open_proposal" /\ result = "ok")
          => /\ selected = << _proposal >>
             /\ _propdir = LinkTarget(ExpPrefix \o _proposal)
    /\ (op \in ScopedOps /\ calls # << >> /\ selected # << >>)
          => \E p \in RemotePaths :
                calls[1][2] = _join_posix(LinkTarget(ExpPrefix \o selected[1]), p)

C9_Witness ==
    /\ op = "listdir"
    /\ result = "ok"
    /\ prevSelected # << >>
    /\ selected # << >>
    /\ prevSelected # selected
    /\ selected = << _proposal >>
    /\ calls = << <<"listdir", LinkTarget(ExpPrefix \o _proposal)>> >>

\* C10: when a with-block is left, normally or by an exception, disconnect
\* has run and the client is not connected, and the exception raised inside
\* the block is raised to the caller, also when the disconnect failed.
C10_BlockExitReleasesAndPropagates ==
    op = "__exit__" =>
        /\ ~inBlock
        /\ _connection = 0
        /\ result = IF blockExc = "none" THEN "ok" ELSE blockExc

C10_Witness ==
    /\ op = "__exit__"
    /\ blockExc = "BodyError"
    /\ result = "BodyError"
    /\ cause = "CloseError"
    /\ _connection = 0

\* the remote calls cl resolve the home directory n times
RECURSIVE HomeResolutions(_)
HomeResolutions(cl) ==
    IF cl = << >> THEN 0
    ELSE (IF Head(cl) = <<"readlink", MyData>> THEN 1 ELSE 0) + HomeResolutions(Tail(cl))

\* C11: the home directory is resolved exactly once by the connect that
\* takes the client from not connected to connected; proposals and its
\* sequence, open_proposal, listdir and download never resolve it again nor
\* change it; and a connect on a connected client is a no-op: it issues no
\* remote call, opens no transport and leaves the connection, the home
\* directory, the proposal id and the proposal directory as they were.
C11_HomeResolvedOncePerSession ==
    [][ /\ (_connection = 0 /\ _connection' # 0)
            => (HomeResolutions(calls') = 1 /\ _home' = RemoteHome)
        /\ op' \in EagerOps \cup { "proposals", "next" }
            => (HomeResolutions(calls') = 0 /\ _home' = _home)
        /\ (_connection # 0 /\ op' \in ConnectOps)
            => /\ result' = "ok"
               /\ calls' = << >>
               /\ UNCHANGED << client, openConns, hist >> ]_vars

C11_Witness ==
    /\ op = "connect"
    /\ result = "ok"
    /\ calls = << >>
    /\ _connection # 0
    /\ selected # << >>
    /\ _propdir # EmptyStr

RECURSIVE StripLeadingSlashes(_)
StripLeadingSlashes(s) ==
    IF s # << >> /\ Head(s) = "/" THEN StripLeadingSlashes(Tail(s)) ELSE s

RECURSIVE StripTrailingSlashes(_)
StripTrailingSlashes(s) ==
    IF s # << >> /\ s[Len(s)] = "/" THEN StripTrailingSlashes(SubSeq(s, 1, Len(s) - 1))
    ELSE s

\* a and b with exactly one separator between them
OneSeparator(a, b) ==
    StripTrailingSlashes(a) \o <<"/">> \o StripLeadingSlashes(StripTrailingSlashes(b))

\* C12: joining two path segments puts exactly one separator between them,
\* whether the first ends with a slash or the second starts with one:
\* "a/b/" joined with "/c" is "a/b/c", so that a path with a leading slash
\* stays below the directory it is joined to.
C12_JoinNormalizesSeparators ==
    Len(joinCall) = 3 => joinCall[3] = OneSeparator(joinCall[1], joinCall[2])

\* the proposals of the listing, in its order, with one leading exp_ removed
ListedProposals ==
    << <<"1", "2", "3", "4", "5">>,
       <<"s", "a", "n", "d", "b", "o", "x">>,
       <<"9", "9">>,
       <<"e", "x", "p", "_", "7">> >>

\* C13: the sequence of proposals yields one entry for each entry of the
\* remote listing, in the order of the listing, and each is the entry
\* without one leading exp_ when it has one and the entry itself
\* otherwise; it ends after the last entry of the listing and not before.
C13_ProposalsStripPrefixInOrder ==
    [][ \A g \in GenIds :
          (op' = "next" /\ gens'[g] # gens[g]) =>
              LET yielded == IF gens[g].st = "running"
                             THEN Len(RemoteListing) - Len(gens[g].items)
                             ELSE 0
              IN  /\ result' = "ok" =>
                        /\ yielded < Len(ListedProposals)
                        /\ ret' = ListedProposals[yielded + 1]
                  /\ result' = "StopIteration" => yielded = Len(ListedProposals) ]_vars

C13_Witness ==
    /\ op = "next"
    /\ result = "ok"
    /\ ret = <<"e", "x", "p", "_", "7">>
    /\ \E g \in GenIds : gens[g].st = "running" /\ gens[g].items = << >>

\* C14: download makes sure of the local destination directory before the
\* remote transfer: a get is issued only when the directory and all its
\* ancestors exist, a failure to create the directory ends the call with
\* no get issued, and after a download that succeeded the directory and
\* all its ancestors exist.
C14_DestinationDirBeforeGet ==
    (op = "download" /\ localArg # << >>) =>
        /\ calls # << >> => Prefixes(DestDir(localArg[1])) \subseteq localDirs
        /\ result = "LocalError" => calls = << >>
        /\ result = "ok" =>
              /\ Len(calls) = 1
              /\ calls[1][1] = "get"
              /\ Prefixes(DestDir(localArg[1])) \subseteq localDirs

C14_Witness ==
    /\ op = "download"
    /\ result = "ok"
    /\ localArg = << <<"o", "s", "f">> >>
    /\ localDirs = { << >>, <<"o">>, <<"o", "s">> }

\* C15: when the remote call of the proposals sequence, of listdir or of
\* download fails on a connected client, the error reaches the caller at
\* once: the call was issued once and not again, and the connection, the
\* home directory, the proposal id and the proposal directory are as they
\* were before the call.
C15_RemoteFailureLeavesSession ==
    [][ (op' \in { "next", "listdir", "download" } /\ result' = "RemoteError") =>
          /\ _connection # 0
          /\ Len(calls') = 1
          /\ UNCHANGED << client, openConns, cwd, hist >> ]_vars

C15_Witness ==
    /\ op = "listdir"
    /\ result = "RemoteError"
    /\ _connection # 0
    /\ selected = << _proposal >>
    /\ _propdir = LinkTarget(ExpPrefix \o _proposal)

\* C16: after an open_proposal that succeeded, for every id and the empty
\* id among them, a proposal is open: listdir or download called next on
\* the connected client does not fail with NoProposalSelectedError.
C16_OpenedProposalIsOpen ==
    [][ (op = "open_proposal" /\ result = "ok" /\ _connection # 0 /\ op' \in ScopedOps)
            => result' # "NoProposalSelectedError" ]_vars

\* C17: every transport that connect opens is released: a connect that
\* leaves the client not connected leaves no transport open that was not
\* open before it, also when the transport was set up and the resolution
\* of MyData failed.
C17_FailedConnectLeaksNoTransport ==
    [][ (op' \in ConnectOps /\ _connection' = 0) => openConns' \subseteq openConns ]_vars

\* C18: the connection is required when the sequence of proposals is first
\* consumed, not when proposals is called: the call itself succeeds and
\* issues nothing, connected or not; the first consumption on a client that
\* is not connected fails with NotConnectedError and issues no listing,
\* also when the sequence was obtained while connected; the first
\* consumption on a connected client issues the listing of
\* <home>/byProposal on the session of that moment and yields the first
\* proposal, also when the sequence was obtained while not connected.
C18_ConnectionCheckedAtFirstUse ==
    [][ /\ op' = "proposals" => (result' = "ok" /\ calls' = << >>)
        /\ \A g \in GenIds :
              (op' = "next" /\ gens[g].st = "created" /\ gens'[g] # gens[g]) =>
                  /\ _connection = 0 =>
                        (result' = "NotConnectedError" /\ calls' = << >>)
                  /\ _connection # 0 =>
                        /\ calls' = << <<"listdir", RemoteHome \o <<"/">> \o ByProposal>> >>
                        /\ result' \in { "ok", "RemoteError" }
                        /\ result' = "ok" => ret' = ListedProposals[1] ]_vars

\* obtained while connected, first consumed after the disconnect
C18_Witness ==
    /\ op = "next"
    /\ lateUse = "connected"
    /\ _connection = 0
    /\ result = "NotConnectedError"
    /\ calls = << >>

\* obtained while not connected, first consumed after the connect
C18_WitnessLateConnect ==
    /\ op = "next"
    /\ lateUse = "disconnected"
    /\ _connection # 0
    /\ result = "ok"
    /\ ret = ListedProposals[1]

GuardErrors == { "NotConnectedError", "NoProposalSelectedError" }

\* C19: an operation that a guard rejects has no effect: when
\* open_proposal, listdir or download fails with NotConnectedError or
\* NoProposalSelectedError it has issued no remote call and created no
\* local directory, and the connection, the home directory, the proposal
\* id and the proposal directory are as they were.
C19_RejectedCallHasNoEffect ==
    [][ (op' \in EagerOps /\ result' \in GuardErrors) =>
          /\ calls' = << >>
          /\ UNCHANGED << client, env >> ]_vars

C19_Witness ==
    /\ op = "open_proposal"
    /\ result = "NotConnectedError"
    /\ _connection = 0
    /\ calls = << >>
    /\ _proposal = <<"1">>
    /\ localDirs # { << >> }
=============================================================================
